---- MODULE Spec2Model ----
(***************************************************************************)
(* Model of labelbot.LabelBot (src/labelbot/labelbot.py): the rule         *)
(* matching and label reconciliation of _label_issues, and the per         *)
(* repository polling driven by sched.scheduler, preceded by the startup   *)
(* of LabelBot.__init__ (SpecStart).                                      *)
(*                                                                         *)
(* Strings of the program (issue titles, bodies, comment bodies) are       *)
(* sequences of one-character strings.  A rule's regular expression is a   *)
(* literal, a sequence of characters, searched anywhere in the text as     *)
(* re.findall does.  Python lists are sequences.                           *)
(***************************************************************************)
EXTENDS Integers, Sequences, FiniteSets, TLC

\* Bounds of the model.
MaxTime == 1        \* no tick is dispatched once the clock has passed MaxTime
MaxLatency == 1     \* longest time the issue listing of one cycle takes

\* The empty value of a slot that holds no record.
None == [kind |-> "none"]

Range(s) == {s[i] : i \in 1..Len(s)}

(***************************************************************************)
(* Inputs.                                                                 *)
(***************************************************************************)
\* LabelingRule(regex, label): a literal pattern and the label it implies.
LabelingRule(regex, label) == [pattern |-> regex, label |-> label]

\* The rule lists the bot is run with (self.rules).
RuleSets ==
    { << >>,
      << LabelingRule(<<"a">>, "bug") >>,
      << LabelingRule(<<"a">>, "bug"), LabelingRule(<<"b", "a">>, "bug") >>,
      << LabelingRule(<<"a", "b">>, "bug"), LabelingRule(<<"b">>, "feat") >> }

\* Lines of rules files.  "(" opens a group that is never closed: a pattern
\* holding it does not compile.
LineABug == <<"a", ":", ":", "b", "u", "g">>
LineBaBug == <<"b", "a", ":", ":", "b", "u", "g">>
LineAbBug == <<"a", "b", ":", ":", "b", "u", "g">>
LineBFeat == <<"b", ":", ":", "f", "e", "a", "t">>
LineNoSeparator == <<"a", "b">>
LineThreeFields == <<"a", ":", ":", "b", ":", ":", "b">>
LineEmpty == << >>
LineNoLabel == <<"a", ":", ":">>
LineBlankLabel == <<"b", ":", ":", " ">>
LineBadRegex == <<"(", "a", ":", ":", "b", "u", "g">>

\* The rules files the bot is started with.
RuleFiles ==
    { << >>,
      << LineABug >>,
      << LineABug, LineBaBug >>,
      << LineAbBug, LineBFeat >>,
      << LineNoSeparator, LineThreeFields >>,
      << LineNoSeparator, LineABug, LineEmpty, LineBaBug >>,
      << LineABug, LineNoLabel >>,
      << LineBlankLabel >>,
      << LineABug, LineBadRegex, LineBFeat >> }

\* default_label: "" is the unset default label.
DefaultLabels == {"", "triage"}

\* interval, in seconds.
Intervals == {1, 2}

\* The repositories the token can access: html_url and full_name
\* (self.available_repos_json).
AvailableRepos ==
    << [html_url |-> "uX", full_name |-> "X"],
       [html_url |-> "uY", full_name |-> "Y"] >>

\* The repository listings the bot may hold: the two repositories, or none
\* accessible.
AvailableIndexes == { AvailableRepos, << >> }

\* Repository full names.
Repos == {"X", "Y"}

\* The url lists add_repos is called with.
RepoArgs == { <<"uX">>, <<"uX", "uY">>, <<"uY", "uY">>, <<"uZ">> }

\* The issues of the tracker when the bot starts, as the issues endpoint
\* returns them, with the comments of each.
InitialIssues(repo, labels1) ==
    IF repo = "X"
    THEN << [number |-> 1, title |-> <<"b", "a">>, body |-> << >>,
             labels |-> labels1, comments |-> << <<"b">> >>],
            [number |-> 2, title |-> <<"b">>, body |-> <<"b", "b">>,
             labels |-> <<"bug">>, comments |-> << <<"a">> >>] >>
    ELSE << [number |-> 1, title |-> << >>, body |-> <<"a", "b">>,
             labels |-> << >>, comments |-> << <<"a">>, <<"a", "b">> >>] >>

\* The label lists issue 1 of repository X may start with.
InitialLabels == { <<"bug">>, <<"wontfix">> }

\* Outcomes of one HTTP call: a 2xx answer, an error status with GitHub's
\* JSON error object as body, or an exception raised by the session.
Outcomes == {"ok", "error", "exception"}

VARIABLES
    rules_file,     \* the lines of the rules file, without their line ends
    warnings,       \* the number of "Skipping invalid rule." messages
    auth,           \* outcome of the GET /user that validates the token,
                    \* "none" before it
    rules, default_label, interval, check_comments, recheck,  \* LabelBot fields
    available_repos_json,                                     \* LabelBot field
    repos,          \* the argument add_repos is called with
    reported,       \* the urls add_repos reported on stderr
    repo_names,     \* the list repo_names of add_repos
    queue,          \* scheduler queue: events [time, id, repo]
    now,            \* time.time()
    pc,             \* in __init__: "new", "rules", "repos"; constructed:
                    \* "init"; then "run", "cycle"; ended: "exited" (run
                    \* returned), "exit1" (sys.exit(1)), "crashed" (uncaught
                    \* exception)
    cur,            \* repo argument of the running _label_issues, or "none"
    issues,         \* the issues list of the running _label_issues
    idx,            \* position of the for loop over issues (next to process)
    tracker,        \* the issues stored by GitHub, per repository
    last,           \* what the loop body computed for the latest issue, with
                    \* the bot's previous update of that issue (prior)
    crashAt,        \* the call whose failure ended the process, or "none"
    inProgress,     \* per repository: cycles begun and not yet returned
    started,        \* repositories for which a tick has begun
    tickStart,      \* time at which the running (or latest) tick began
    lastEnd,        \* per repository: time its latest cycle ended, -1 if none
    applied,        \* per issue: the label list of the bot's latest
                    \* successful update, None if none
    ever,           \* per issue: every label the issue has carried
    calls,          \* the calls of the running (or latest) tick: list counts
                    \* the issue listings, done holds per evaluated issue its
                    \* number and its comments and update calls, before the
                    \* numbers evaluated in earlier ticks
    seen            \* per repository: the numbers of the issues evaluated

vars == << rules_file, warnings, auth, rules, default_label, interval, check_comments, recheck,
           available_repos_json, repos, reported, queue, now, pc, cur,
           issues, idx, tracker, last, crashAt, inProgress, started,
           tickStart, lastEnd, applied, ever, repo_names, calls, seen >>

config == << rules_file, warnings, auth, rules, default_label, interval,
             check_comments, recheck, available_repos_json, repos >>

(***************************************************************************)
(* Loading the rules.                                                      *)
(***************************************************************************)
\* The Python string of a sequence of characters.
RECURSIVE Join(_)
Join(chars) == IF chars = << >> THEN "" ELSE Head(chars) \o Join(Tail(chars))

\* str.split('::'): the fields between the occurrences of "::", found from
\* the left without overlap.
RECURSIVE SplitFrom(_, _)
SplitFrom(field, rest) ==
    IF Len(rest) >= 2 /\ rest[1] = ":" /\ rest[2] = ":"
    THEN << field >> \o SplitFrom(<< >>, SubSeq(rest, 3, Len(rest)))
    ELSE IF rest = << >> THEN << field >>
    ELSE SplitFrom(Append(field, Head(rest)), Tail(rest))

\* line.splitlines()[0].split('::') (line 130).
Split(line) == SplitFrom(<< >>, line)

\* re.compile(regex) at line 198 returns: the pattern has no unclosed group.
Compiles(regex) == "(" \notin Range(regex)

\* _get_rules that leaves the loop at the first invalid line.
RECURSIVE GetRulesUntilInvalid(_)
GetRulesUntilInvalid(lines) ==
    IF lines = << >> THEN [rules |-> << >>, warnings |-> 0, error |-> FALSE]
    ELSE LET words == Split(Head(lines))
         IN  IF Len(words) # 2
             THEN [rules |-> << >>, warnings |-> 1, error |-> FALSE]
             ELSE IF ~Compiles(words[1])
             THEN [rules |-> << >>, warnings |-> 0, error |-> TRUE]
             ELSE LET rest == GetRulesUntilInvalid(Tail(lines))
                  IN  [rules |-> << LabelingRule(words[1], Join(words[2])) >>
                                    \o rest.rules,
                       warnings |-> rest.warnings,
                       error |-> rest.error]

\* _get_rules (lines 124-135) on the lines of the file: the rules, the
\* number of warnings printed, and error when re.compile raised, which ends
\* the call without a result.
RECURSIVE GetRules(_)
GetRules(lines) ==
    IF lines = << >> THEN [rules |-> << >>, warnings |-> 0, error |-> FALSE]
    ELSE LET words == Split(Head(lines))
         IN  IF Len(words) # 2
             THEN LET rest == GetRules(Tail(lines))
                  IN  [rules |-> rest.rules,
                       warnings |-> rest.warnings + 1,
                       error |-> rest.error]
             ELSE IF ~Compiles(words[1])
             THEN [rules |-> << >>, warnings |-> 0, error |-> TRUE]
             ELSE LET rest == GetRules(Tail(lines))
                  IN  [rules |-> IF rest.error THEN << >>
                                 ELSE << LabelingRule(words[1], Join(words[2])) >>
                                          \o rest.rules,
                       warnings |-> rest.warnings,
                       error |-> rest.error]

\* A rules file that loads as the rule list rs without a warning.
FileOf(rs) ==
    CHOOSE f \in RuleFiles :
        GetRules(f) = [rules |-> rs, warnings |-> 0, error |-> FALSE]

\* _get_requests_session without its checks: any answer is taken as valid.
SessionValidUnchecked(outcome) == TRUE

\* Lines 150-170: the session is returned when GET /user neither raised nor
\* answered an error status; otherwise sys.exit(1).
SessionValid(outcome) == outcome = "ok"

\* GitHub's JSON error object, as the list of its keys that a for loop
\* walks.
ErrorObject == << [key |-> "message"], [key |-> "documentation_url"] >>

\* Is the value of response.json() an error object and not a listing?
IsErrorObject(json) == json # << >> /\ "html_url" \notin DOMAIN json[1]

(***************************************************************************)
(* Matching.                                                               *)
(***************************************************************************)
\* Does pattern p occur in text s at position i (1-based)?
MatchAt(p, s, i) ==
    /\ i + Len(p) - 1 <= Len(s)
    /\ \A k \in 1..Len(p) : s[i + k - 1] = p[k]

\* re.findall for a literal pattern: the non-overlapping occurrences, left
\* to right, from position i on.  The empty pattern matches at every
\* position, the end of the text included.
RECURSIVE FindallFrom(_, _, _)
FindallFrom(p, s, i) ==
    IF i > Len(s) + 1 THEN << >>
    ELSE IF MatchAt(p, s, i)
         THEN IF Len(p) = 0
              THEN << p >> \o FindallFrom(p, s, i + 1)
              ELSE << p >> \o FindallFrom(p, s, i + Len(p))
         ELSE FindallFrom(p, s, i + 1)

\* rule.pattern.findall(text)
Findall(p, s) == FindallFrom(p, s, 1)

\* MatchTitleBody that searches the body alone.
RECURSIVE MatchBodyOnly(_, _)
MatchBodyOnly(rs, issue) ==
    IF rs = << >> THEN << >>
    ELSE (IF Findall(Head(rs).pattern, issue.body) # << >>
          THEN << Head(rs).label >>
          ELSE << >>) \o MatchBodyOnly(Tail(rs), issue)

\* Lines 86-90: the labels of the rules found in the body or the title, in
\* rule order.
RECURSIVE MatchTitleBody(_, _)
MatchTitleBody(rs, issue) ==
    IF rs = << >> THEN << >>
    ELSE (IF Findall(Head(rs).pattern, issue.body) # << >>
             \/ Findall(Head(rs).pattern, issue.title) # << >>
          THEN << Head(rs).label >>
          ELSE << >>) \o MatchTitleBody(Tail(rs), issue)

\* Lines 100-103: the labels of the rules found in one comment body.
RECURSIVE MatchComment(_, _)
MatchComment(rs, body) ==
    IF rs = << >> THEN << >>
    ELSE (IF Findall(Head(rs).pattern, body) # << >>
          THEN << Head(rs).label >>
          ELSE << >>) \o MatchComment(Tail(rs), body)

\* Lines 99-103: the labels found in the comments, comment by comment.
RECURSIVE MatchComments(_, _)
MatchComments(rs, comments) ==
    IF comments = << >> THEN << >>
    ELSE MatchComment(rs, Head(comments)) \o MatchComments(rs, Tail(comments))

\* labels_to_add at line 105: comments is the list fetched at line 98 (<< >>
\* when comments are not checked).
LabelsToAdd(rs, issue, comments) ==
    MatchTitleBody(rs, issue) \o MatchComments(rs, comments)

\* The flag matched at line 105: set whenever a label was appended.
Matched(rs, issue, comments) == LabelsToAdd(rs, issue, comments) # << >>

(***************************************************************************)
(* Reconciliation.                                                         *)
(***************************************************************************)
\* WithDefault without the test of matched: the default label is appended
\* whenever one is set.
WithDefaultAlways(labels_to_add, matched, default) ==
    IF default # "" THEN Append(labels_to_add, default) ELSE labels_to_add

\* WithDefault without lines 109-110: the default label is never appended.
WithDefaultNever(labels_to_add, matched, default) == labels_to_add

\* Lines 109-110: the default label is appended when one is set and no rule
\* matched.
WithDefault(labels_to_add, matched, default) ==
    IF default # "" /\ ~matched
    THEN Append(labels_to_add, default)
    ELSE labels_to_add

\* Line 113, list(set(labels_to_add)): the lists that hold each value of
\* labels_to_add once; the order is the iteration order of a Python set.
Uniques(labels_to_add) ==
    { u \in [1..Cardinality(Range(labels_to_add)) -> Range(labels_to_add)] :
        Range(u) = Range(labels_to_add) }

\* NewLabels without the existing labels: only the added ones are sent.
NewLabelsOnlyAdded(existing_labels, labels_to_add) == labels_to_add

\* Line 114: new_labels = existing_labels + labels_to_add.
NewLabels(existing_labels, labels_to_add) == existing_labels \o labels_to_add

\* Line 115: not new_labels == existing_labels, a comparison of lists.
Changed(new_labels, existing_labels) == new_labels # existing_labels

\* Line 106: the names of the issue's labels.
ExistingLabels(issue) == issue.labels

\* The labels GitHub stores for an issue after PATCH {'labels': new_labels}:
\* the list replaces the issue's labels, each label kept once, in order of
\* first occurrence.
RECURSIVE ServerLabels(_)
ServerLabels(new_labels) ==
    IF new_labels = << >> THEN << >>
    ELSE LET front == ServerLabels(SubSeq(new_labels, 1, Len(new_labels) - 1))
             l == new_labels[Len(new_labels)]
         IN  IF l \in Range(front) THEN front ELSE Append(front, l)

(***************************************************************************)
(* Registration.                                                           *)
(***************************************************************************)
\* Lines 45-49 for one url: found is reset for every available repository,
\* so it ends as the comparison with the last one ("True" or "False"), and
\* keeps the value it had ("unbound" before the first assignment) when
\* there is none.
RECURSIVE LookupRepo(_, _, _)
LookupRepo(repo, available, found) ==
    IF available = << >> THEN [names |-> << >>, found |-> found]
    ELSE LET hit == repo = Head(available).html_url
             rest == LookupRepo(repo, Tail(available),
                                IF hit THEN "True" ELSE "False")
         IN  [names |-> (IF hit THEN << Head(available).full_name >> ELSE << >>)
                          \o rest.names,
              found |-> rest.found]

\* Lines 43-52 of add_repos: the names to label, the urls reported on
\* stderr, and whether reading found before its assignment ended the call.
RECURSIVE ResolveRepos(_, _, _)
ResolveRepos(urls, available, found) ==
    IF urls = << >>
    THEN [names |-> << >>, reported |-> << >>, error |-> FALSE]
    ELSE LET one == LookupRepo(Head(urls), available, found)
         IN  IF one.found = "unbound"
             THEN [names |-> one.names, reported |-> << >>, error |-> TRUE]
             ELSE LET rest == ResolveRepos(Tail(urls), available, one.found)
                  IN  [names |-> one.names \o rest.names,
                       reported |-> (IF one.found = "True" THEN << >>
                                     ELSE << Head(urls) >>) \o rest.reported,
                       error |-> rest.error]

(***************************************************************************)
(* Scheduler.                                                              *)
(***************************************************************************)
\* scheduler.enter(delay, 1, self._label_issues, argument=(repo,)): an event
\* due at time.time() + delay.
Enter(q, delay, repo) ==
    LET id == CHOOSE n \in 1..(Cardinality(q) + 1) :
                  \A e \in q : e.id # n
    IN  q \cup {[time |-> now + delay, id |-> id, repo |-> repo]}

\* Lines 55-57: one event per name, each with no delay.
RECURSIVE EnterAll(_, _)
EnterAll(q, names) ==
    IF names = << >> THEN q
    ELSE EnterAll(Enter(q, 0, Head(names)), Tail(names))

\* CanDispatch of a scheduler that fires a timer while an action still runs.
CanDispatchWhileRunning == pc \in {"run", "cycle"}

\* scheduler.run() takes the next event when the action of the previous one
\* has returned: actions are called from the one loop of run().
CanDispatch == pc = "run"

\* The events run() may take next: those with the least time (all have
\* priority 1).
Earliest(q) == {e \in q : \A f \in q : e.time <= f.time}

(***************************************************************************)
(* The bot.                                                                *)
(***************************************************************************)
\* LabelBot.__init__ (lines 18-38) has returned; the tracker holds its
\* issues and nothing is scheduled.
Init ==
    /\ rules \in RuleSets
    /\ rules_file = FileOf(rules)
    /\ warnings = 0
    /\ auth = "ok"
    /\ default_label \in DefaultLabels
    /\ interval \in Intervals
    /\ check_comments \in BOOLEAN
    /\ recheck \in BOOLEAN
    /\ available_repos_json \in AvailableIndexes
    /\ repos \in RepoArgs
    /\ reported = << >>
    /\ repo_names = << >>
    /\ calls = [list |-> 0, done |-> << >>, before |-> {}]
    /\ seen = [r \in Repos |-> {}]
    /\ queue = {}
    /\ now = 0
    /\ pc = "init"
    /\ cur = "none"
    /\ issues = << >>
    /\ idx = 1
    /\ \E labels1 \in InitialLabels :
           tracker = [r \in Repos |-> InitialIssues(r, labels1)]
    /\ last = None
    /\ crashAt = "none"
    /\ inProgress = [r \in Repos |-> 0]
    /\ started = {}
    /\ tickStart = 0
    /\ lastEnd = [r \in Repos |-> -1]
    /\ applied = [r \in Repos |-> [i \in 1..Len(tracker[r]) |-> None]]
    /\ ever = [r \in Repos |->
                 [i \in 1..Len(tracker[r]) |-> Range(tracker[r][i].labels)]]

\* add_repos(repos) followed by run() (lines 40-61).  When the listing is an
\* error object, indexing its first key at line 47 raises TypeError.
AddRepos ==
    /\ pc = "init"
    /\ LET res == IF IsErrorObject(available_repos_json)
                  THEN [names |-> << >>, reported |-> << >>,
                        error |-> repos # << >>]
                  ELSE ResolveRepos(repos, available_repos_json, "unbound")
       IN  /\ reported' = res.reported
           /\ repo_names' = res.names
           /\ IF res.error
              THEN /\ pc' = "crashed"
                   /\ crashAt' = "add_repos"
                   /\ queue' = queue
              ELSE /\ pc' = "run"
                   /\ crashAt' = crashAt
                   /\ queue' = EnterAll(queue, res.names)
    /\ UNCHANGED << config, now, cur, issues, idx, tracker, last, inProgress,
                    started, tickStart, lastEnd, applied, ever, calls, seen >>

\* run(): the next event is not due yet; delayfunc sleeps until it is.
Sleep ==
    /\ CanDispatch
    /\ queue # {}
    /\ \E e \in Earliest(queue) :
           /\ e.time > now
           /\ now' = e.time
    /\ UNCHANGED << config, reported, queue, pc, cur, issues, idx, tracker,
                    last, crashAt, inProgress, started, tickStart, lastEnd,
                    applied, ever, repo_names, calls, seen >>

\* run(): the queue is empty and run() returns.
Exit ==
    /\ CanDispatch
    /\ queue = {}
    /\ pc' = "exited"
    /\ UNCHANGED << config, reported, queue, now, cur, issues, idx, tracker,
                    last, crashAt, inProgress, started, tickStart, lastEnd,
                    applied, ever, repo_names, calls, seen >>

\* run() takes the due event e and calls _label_issues(e.repo), which lists
\* the issues of the repository (lines 63-78); the call takes d seconds.
\* An exception of the session ends the process.  After an error status the
\* exception of raise_for_status is dropped and issues is GitHub's error
\* object: the loop at line 81 walks its keys, and indexing the first key
\* (a string) at line 87, or at line 93 when there is no rule, raises
\* TypeError.
Dispatch(e) ==
    /\ CanDispatch
    /\ now <= MaxTime
    /\ e \in Earliest(queue)
    /\ e.time <= now
    /\ queue' = queue \ {e}
    /\ cur' = e.repo
    /\ started' = started \cup {e.repo}
    /\ inProgress' = [inProgress EXCEPT ![e.repo] = @ + 1]
    /\ tickStart' = now
    /\ last' = None
    /\ \E d \in 0..MaxLatency : now' = now + d
    /\ \E o \in Outcomes :
           IF o = "ok"
           THEN /\ issues' = tracker[e.repo]
                /\ pc' = "cycle"
                /\ crashAt' = crashAt
           ELSE /\ issues' = << >>
                /\ pc' = "crashed"
                /\ crashAt' = "issues"
    /\ idx' = 1
    /\ calls' = [list |-> 1, done |-> << >>, before |-> seen[e.repo]]
    /\ UNCHANGED << config, reported, tracker, lastEnd, applied, ever,
                    repo_names, seen >>

\* Lines 67-81: is the issue with this number evaluated in this tick?  The
\* loop takes every issue of the list; neither recheck nor the numbers
\* evaluated before are consulted.
Evaluates(recheck_flag, number, evaluated_before) == TRUE

\* Lines 94-96: the number of comments calls made for one issue.
CommentCalls(enabled) == IF enabled THEN 1 ELSE 0

\* Lines 115-116: the number of update calls made for one issue.
UpdateCalls(changed) == IF changed THEN 1 ELSE 0

\* The comments the loop at line 99 walks after the call at line 96 ended
\* with outcome oc: the issue's comment bodies, or the keys of GitHub's
\* error object, none of which is indexed when there is no rule.
CommentsRead(issue, oc) ==
    IF check_comments /\ oc = "ok" THEN issue.comments ELSE << >>

\* Does the comments call of this issue end the process?  The session
\* raises, or a key of the error object is indexed at line 101.
CommentsCrash(oc) ==
    /\ check_comments
    /\ \/ oc = "exception"
       \/ oc = "error" /\ rules # << >>

\* The body of the loop at line 81 for issues[idx] (lines 82-118), the
\* collaborator calls counted in calls and the issue noted in seen: oc and op
\* are the outcomes of the comments call and of the update call, u the order
\* in which list(set(...)) yields the labels.
EvaluateIssue ==
    /\ \E oc \in Outcomes, op \in Outcomes :
       LET issue == issues[idx]
           comments == CommentsRead(issue, oc)
           to_add == WithDefault(LabelsToAdd(rules, issue, comments),
                                 Matched(rules, issue, comments),
                                 default_label)
           existing_labels == ExistingLabels(issue)
           matched_labels == LabelsToAdd(rules, issue, comments)
       IN  \E u \in Uniques(to_add) :
           LET new_labels == NewLabels(existing_labels, u)
               changed == Changed(new_labels, existing_labels)
           IN  /\ ~check_comments => oc = "ok"
               /\ ~(changed /\ ~CommentsCrash(oc)) => op = "ok"
               /\ IF CommentsCrash(oc)
                  THEN /\ pc' = "crashed"
                       /\ crashAt' = "comments"
                       /\ calls' = [calls EXCEPT !.done = Append(@,
                                       [number |-> issue.number,
                                        comments |-> CommentCalls(check_comments),
                                        patch |-> 0])]
                       /\ UNCHANGED << idx, tracker, last, applied, ever, seen >>
                  ELSE IF changed /\ op = "exception"
                  THEN /\ pc' = "crashed"
                       /\ crashAt' = "patch"
                       /\ last' = [kind |-> "issue", repo |-> cur, idx |-> idx,
                                   comments |-> comments,
                                   prior |-> applied[cur][idx],
                                   existing |-> existing_labels,
                                   to_add |-> u, new_labels |-> new_labels,
                                   changed |-> changed, patch |-> op,
                                   matched |-> matched_labels]
                       /\ calls' = [calls EXCEPT !.done = Append(@,
                                       [number |-> issue.number,
                                        comments |-> CommentCalls(check_comments),
                                        patch |-> UpdateCalls(changed)])]
                       /\ UNCHANGED << idx, tracker, applied, ever, seen >>
                  ELSE /\ pc' = pc
                       /\ crashAt' = crashAt
                       /\ idx' = idx + 1
                       /\ last' = [kind |-> "issue", repo |-> cur, idx |-> idx,
                                   comments |-> comments,
                                   prior |-> applied[cur][idx],
                                   existing |-> existing_labels,
                                   to_add |-> u, new_labels |-> new_labels,
                                   changed |-> changed,
                                   patch |-> IF changed THEN op ELSE "none",
                                   matched |-> matched_labels]
                       /\ calls' = [calls EXCEPT !.done = Append(@,
                                       [number |-> issue.number,
                                        comments |-> CommentCalls(check_comments),
                                        patch |-> UpdateCalls(changed)])]
                       /\ seen' = [seen EXCEPT ![cur] = @ \cup {issue.number}]
                       /\ IF changed /\ op = "ok"
                          THEN /\ tracker' = [tracker EXCEPT ![cur][idx].labels =
                                                 ServerLabels(new_labels)]
                               /\ applied' = [applied EXCEPT ![cur][idx] =
                                                 [kind |-> "labels",
                                                  labels |-> ServerLabels(new_labels)]]
                               /\ ever' = [ever EXCEPT ![cur][idx] =
                                              @ \cup Range(ServerLabels(new_labels))]
                          ELSE UNCHANGED << tracker, applied, ever >>
    /\ UNCHANGED << config, reported, queue, now, cur, issues, inProgress,
                    started, tickStart, lastEnd, repo_names >>

\* The loop at line 81 passes over issues[idx] without evaluating it.
SkipIssue ==
    /\ idx' = idx + 1
    /\ UNCHANGED << config, reported, queue, now, pc, cur, issues, tracker,
                    last, crashAt, inProgress, started, tickStart, lastEnd,
                    applied, ever, repo_names, calls, seen >>

\* One pass of the loop at line 81, for issues[idx].
ProcessIssue ==
    /\ pc = "cycle"
    /\ idx <= Len(issues)
    /\ IF Evaluates(recheck, issues[idx].number, seen[cur])
       THEN EvaluateIssue
       ELSE SkipIssue

\* Lines 120-122: every issue is done; _label_issues schedules itself again
\* after interval seconds and returns to run().
EndCycle ==
    /\ pc = "cycle"
    /\ idx > Len(issues)
    /\ queue' = Enter(queue, interval, cur)
    /\ pc' = "run"
    /\ inProgress' = [inProgress EXCEPT ![cur] = @ - 1]
    /\ lastEnd' = [lastEnd EXCEPT ![cur] = now]
    /\ UNCHANGED << config, reported, now, cur, issues, idx, tracker, last,
                    crashAt, started, tickStart, applied, ever, repo_names,
                    calls, seen >>

Next ==
    \/ AddRepos
    \/ Sleep
    \/ Exit
    \/ \E e \in queue : Dispatch(e)
    \/ ProcessIssue
    \/ EndCycle

Spec == Init /\ [][Next]_vars

(***************************************************************************)
(* Startup: LabelBot.__init__ step by step, then the bot as above.         *)
(***************************************************************************)
\* The url lists add_repos is called with after a modelled startup.
StartRepoArgs == { <<"uX">>, <<"uZ">> }

\* LabelBot(...) is being called: the fields of lines 20-25 are set and the
\* token is read; no request has been made.
InitStart ==
    /\ rules_file \in RuleFiles
    /\ warnings = 0
    /\ auth = "none"
    /\ rules = << >>
    /\ default_label \in DefaultLabels
    /\ interval \in Intervals
    /\ check_comments \in BOOLEAN
    /\ recheck \in BOOLEAN
    /\ available_repos_json = << >>
    /\ repos \in StartRepoArgs
    /\ reported = << >>
    /\ repo_names = << >>
    /\ calls = [list |-> 0, done |-> << >>, before |-> {}]
    /\ seen = [r \in Repos |-> {}]
    /\ queue = {}
    /\ now = 0
    /\ pc = "new"
    /\ cur = "none"
    /\ issues = << >>
    /\ idx = 1
    /\ tracker = [r \in Repos |-> InitialIssues(r, <<"wontfix">>)]
    /\ last = None
    /\ crashAt = "none"
    /\ inProgress = [r \in Repos |-> 0]
    /\ started = {}
    /\ tickStart = 0
    /\ lastEnd = [r \in Repos |-> -1]
    /\ applied = [r \in Repos |-> [i \in 1..Len(tracker[r]) |-> None]]
    /\ ever = [r \in Repos |->
                 [i \in 1..Len(tracker[r]) |-> Range(tracker[r][i].labels)]]

\* What the steps of __init__ leave alone.
bot == << default_label, interval, check_comments, recheck, repos, reported,
         repo_names, calls, seen, queue, now, cur, issues, idx, tracker,
         last, inProgress, started, tickStart, lastEnd, applied, ever >>

\* _get_requests_session (lines 144-172): GET /user with the token; an
\* exception of the session or an error status ends the process with
\* sys.exit(1).
GetRequestsSession ==
    /\ pc = "new"
    /\ \E o \in Outcomes :
           /\ auth' = o
           /\ pc' = IF SessionValid(o) THEN "rules" ELSE "exit1"
    /\ UNCHANGED << bot, rules_file, warnings, rules, available_repos_json,
                    crashAt >>

\* self.rules = self._get_rules(rules_file) (line 34); an exception of
\* re.compile is not caught and ends the process.
LoadRules ==
    /\ pc = "rules"
    /\ LET res == GetRules(rules_file)
       IN  /\ warnings' = res.warnings
           /\ rules' = res.rules
           /\ pc' = IF res.error THEN "crashed" ELSE "repos"
           /\ crashAt' = IF res.error THEN "rules" ELSE crashAt
    /\ UNCHANGED << bot, rules_file, auth, available_repos_json >>

\* Lines 36-38: the accessible repositories are listed; the status is not
\* checked, so an error object is kept as the listing.
ListRepos ==
    /\ pc = "repos"
    /\ \E o \in Outcomes :
           IF o = "exception"
           THEN /\ pc' = "crashed"
                /\ crashAt' = "repos"
                /\ UNCHANGED available_repos_json
           ELSE /\ pc' = "init"
                /\ crashAt' = crashAt
                /\ IF o = "ok"
                   THEN available_repos_json' \in AvailableIndexes
                   ELSE available_repos_json' = ErrorObject
    /\ UNCHANGED << bot, rules_file, warnings, auth, rules >>

NextStart ==
    \/ GetRequestsSession
    \/ LoadRules
    \/ ListRepos
    \/ Next

SpecStart == InitStart /\ [][NextStart]_vars

(***************************************************************************)
(* Properties.                                                             *)
(***************************************************************************)
\* Pattern p occurs somewhere in text s.
Occurs(p, s) == \E i \in 1..(Len(s) + 1) : MatchAt(p, s, i)

\* The text blocks evaluated for the latest issue: title, body and the
\* comment bodies that were read.
LastBlocks ==
    << issues[last.idx].title, issues[last.idx].body >> \o last.comments

\* The labels of the rules that occur in some evaluated block of the latest
\* issue.
LastMatchingLabels ==
    { rules[k].label : k \in { j \in 1..Len(rules) :
          \E b \in Range(LastBlocks) : Occurs(rules[j].pattern, b) } }

\* The loop body has run for an issue and its result is in last.
Reconciled == last.kind = "issue"

\* C1: idempotence across ticks.  When the labels an issue is fetched with
\* are those of the bot's previous update of it, the tick reports no change
\* and issues no update call for the issue.
C1_IdempotentAcrossTicks ==
    ( /\ Reconciled
      /\ last.prior # None
      /\ last.prior.labels = last.existing )
    => ( ~last.changed /\ last.patch = "none" )

\* C2: additivity.  The label list computed for an issue holds every label
\* the issue was fetched with, and every label an issue has ever carried is
\* still on it.
C2_Additive ==
    /\ Reconciled => Range(last.existing) \subseteq Range(last.new_labels)
    /\ \A r \in Repos : \A i \in 1..Len(tracker[r]) :
           ever[r][i] \subseteq Range(tracker[r][i].labels)

\* C2 witness: an update that added a label was applied to an issue that
\* already carried labels.
C2_Witness ==
    /\ Reconciled
    /\ last.patch = "ok"
    /\ last.existing # << >>
    /\ Range(tracker[last.repo][last.idx].labels) # Range(last.existing)

\* C3: change detection is set-based.  An update call is issued for an issue
\* exactly when existing united with the labels to add differs from existing
\* as a set.
C3_SetBasedChange ==
    Reconciled =>
        ( (last.patch # "none")
          <=> (Range(last.existing) \cup Range(last.to_add)
                 # Range(last.existing)) )

\* C4: when some rule matches an evaluated text block of the issue, the
\* labels to add are those of the matching rules: the default label is not
\* added.
C4_DefaultOnlyOnNoMatch ==
    ( Reconciled /\ LastMatchingLabels # {} )
    => Range(last.to_add) = LastMatchingLabels

\* C4 witness: a default label is set, a rule matched the issue and the
\* update was applied.
C4_Witness ==
    /\ Reconciled
    /\ default_label # ""
    /\ LastMatchingLabels # {}
    /\ default_label \notin LastMatchingLabels
    /\ last.patch = "ok"

\* C5: when no rule matches any evaluated block, the new label set is the
\* existing one plus the default label if one is set; without a default
\* label the new list is the existing one, nothing changed and no update
\* call is issued.
C5_NoMatch ==
    ( Reconciled /\ LastMatchingLabels = {} )
    => IF default_label # ""
       THEN Range(last.new_labels) = Range(last.existing) \cup {default_label}
       ELSE /\ last.new_labels = last.existing
            /\ ~last.changed
            /\ last.patch = "none"

\* C5 witness: no rule matched an issue, a default label is set and the
\* update that adds it was applied.
C5_Witness ==
    /\ Reconciled
    /\ rules # << >>
    /\ LastMatchingLabels = {}
    /\ default_label # ""
    /\ last.patch = "ok"
    /\ default_label \in Range(tracker[last.repo][last.idx].labels)

\* C6: per-issue failure isolation.  A failed comments or update call of one
\* issue never leaves later issues of the same tick unprocessed.
C6_IssueFailureIsolated ==
    ~ ( /\ pc = "crashed"
        /\ crashAt \in {"comments", "patch"}
        /\ idx < Len(issues) )

\* C7: cross-repository failure isolation.  A failed issue listing of one
\* repository never ends the process while the tick of another repository
\* of the same round is still due.
C7_RepoFailureIsolated ==
    ~ ( /\ pc = "crashed"
        /\ crashAt = "issues"
        /\ \E e \in queue : e.repo # cur /\ e.time <= tickStart )

\* C8: perpetual polling.  Every repository whose polling has begun has a
\* cycle running or a timer event pending, whatever the outcomes of its
\* cycles were.
C8_AlwaysRearmed ==
    \A r \in started :
        \/ pc = "cycle" /\ cur = r
        \/ \E e \in queue : e.repo = r

\* C9: no overlapping cycles.  At most one cycle of a repository is in
\* progress, and it is the one the scheduler is running: a tick begins only
\* when the previous cycle has returned.
C9_NoOverlap ==
    \A r \in Repos :
        /\ inProgress[r] <= 1
        /\ inProgress[r] = 1 => (cur = r /\ pc \in {"cycle", "crashed"})

\* C9 witness: a later tick of a repository is running after an earlier
\* cycle of the same repository ended.
C9_Witness ==
    /\ pc = "cycle"
    /\ lastEnd[cur] >= 0
    /\ inProgress[cur] = 1

\* C10: tick spacing.  A tick of a repository never starts earlier than
\* interval after the previous cycle of the same repository ended.
C10_TickSpacing ==
    ( pc = "cycle" /\ lastEnd[cur] >= 0 )
    => tickStart >= lastEnd[cur] + interval

\* add_repos has run (to its end or to an exception).
AddReposCalled ==
    \/ pc \in {"run", "cycle", "exited"}
    \/ pc = "crashed" /\ crashAt \in {"add_repos", "issues", "comments", "patch"}

\* The full names the index holds for url u.
NamesOf(u) ==
    { available_repos_json[k].full_name :
        k \in { j \in 1..Len(available_repos_json) :
                  available_repos_json[j].html_url = u } }

\* C11: repository resolution.  Once add_repos has run, every supplied
\* reference is registered exactly when the index holds it and reported
\* exactly when the index does not hold it.
C11_Resolution ==
    AddReposCalled =>
        \A u \in Range(repos) :
            /\ (NamesOf(u) # {}) <=> (NamesOf(u) \cap Range(repo_names) # {})
            /\ (NamesOf(u) = {}) <=> (u \in Range(reported))

\* The text blocks the latest issue offers: title, body, and its comment
\* bodies when comments are checked.
IssueBlocks ==
    << issues[last.idx].title, issues[last.idx].body >>
        \o (IF check_comments THEN issues[last.idx].comments ELSE << >>)

\* C15: matcher result.  A label is among the matched labels of an issue
\* exactly when a rule carrying it occurs in one of the issue's text blocks,
\* and each matched label is passed on once.
C15_MatcherResult ==
    Reconciled =>
        /\ Range(last.matched) =
               { rules[k].label : k \in { j \in 1..Len(rules) :
                     \E b \in Range(IssueBlocks) : Occurs(rules[j].pattern, b) } }
        /\ last.matched # << >> =>
               /\ Range(last.to_add) = Range(last.matched)
               /\ Len(last.to_add) = Cardinality(Range(last.matched))

\* C15 witness: one label was matched in several places of an issue, a
\* comment among them, and passed on once.
C15_Witness ==
    /\ Reconciled
    /\ check_comments
    /\ Len(last.matched) > 1
    /\ Len(last.to_add) = 1
    /\ MatchComments(rules, last.comments) # << >>
    /\ last.patch = "ok"

\* C17: one timer per tracked repository.  No repository has more than one
\* pending timer event or running cycle.
C17_OneTimerPerRepo ==
    \A r \in Repos :
        Cardinality({e \in queue : e.repo = r}) + inProgress[r] <= 1

\* A tick has begun and calls describes it.
Ticked == calls.list > 0

\* The latest tick is over: _label_issues returned to run(), or an exception
\* left it and ended the process.
TickOver == Ticked /\ pc \in {"run", "crashed"}

\* The records calls holds for the issue with this number in the latest tick.
CallsFor(number) ==
    SelectSeq(calls.done, LAMBDA c : c.number = number)

\* The comments calls the latest tick made for the issue with this number.
CommentCallsFor(number) ==
    IF CallsFor(number) = << >> THEN 0
    ELSE CallsFor(number)[1].comments + (Len(CallsFor(number)) - 1)

\* The update calls the latest tick made for the issue with this number.
UpdateCallsFor(number) ==
    IF CallsFor(number) = << >> THEN 0
    ELSE CallsFor(number)[1].patch + (Len(CallsFor(number)) - 1)

\* The numbers of the issues the latest tick matched and reconciled: those
\* it made calls for, less the one whose comments call ended the process
\* before line 105 was reached.
ReconciledInTick ==
    { calls.done[i].number :
        i \in { j \in 1..Len(calls.done) :
                  ~(pc = "crashed" /\ crashAt = "comments"
                      /\ j = Len(calls.done)) } }

\* C18: collaborator call counts per tick.  In a tick that is over the
\* issues were listed once, and every issue of the list had exactly one
\* comments call when comments are checked and none otherwise, and at most
\* one update call.
C18_CallCounts ==
    TickOver =>
        /\ calls.list = 1
        /\ \A i \in 1..Len(issues) :
               /\ CommentCallsFor(issues[i].number)
                      = (IF check_comments THEN 1 ELSE 0)
               /\ UpdateCallsFor(issues[i].number) <= 1

\* C19: recheck.  With recheck set, a tick that is over has matched and
\* reconciled every issue of its list, whatever earlier ticks evaluated.
C19_Recheck ==
    ( recheck /\ TickOver )
    => ReconciledInTick = { issues[i].number : i \in 1..Len(issues) }

\* C20: the update payload is duplicate-free.  The label list sent in an
\* update call holds each label once.
C20_PayloadDuplicateFree ==
    ( Reconciled /\ last.patch # "none" )
    => Cardinality(Range(last.new_labels)) = Len(last.new_labels)

\* _get_rules has been called.
RulesCalled == pc \notin {"new", "rules", "exit1"}

\* The lines of the rules file that split into exactly two fields.
TwoFieldLines == SelectSeq(rules_file, LAMBDA line : Len(Split(line)) = 2)

\* The rule of the k-th two-field line.
RuleOfLine(k) ==
    LabelingRule(Split(TwoFieldLines[k])[1], Join(Split(TwoFieldLines[k])[2]))

\* C12: zero usable rules is fatal.  When the rules file yields no rule, the
\* process exits with a non-zero code and no repository is polled.
C12_ZeroRulesFatal ==
    ( RulesCalled /\ crashAt # "rules" /\ TwoFieldLines = << >> )
    => ( pc = "exit1" /\ started = {} /\ queue = {} )

\* C13 as claimed: loading a file with N two-field lines and M other lines
\* yields N rules, in source order, and M warnings.
C13_LoadRobust ==
    RulesCalled =>
        /\ Len(rules) = Len(TwoFieldLines)
        /\ \A k \in 1..Len(rules) : rules[k] = RuleOfLine(k)
        /\ warnings = Len(rules_file) - Len(TwoFieldLines)

\* C13 amended: when the pattern of every two-field line compiles, loading
\* yields N rules, in source order, and M warnings, and is not aborted.
C13_LoadRobustCompiling ==
    ( RulesCalled
      /\ \A k \in 1..Len(TwoFieldLines) : Compiles(Split(TwoFieldLines[k])[1]) )
    => /\ crashAt # "rules"
       /\ Len(rules) = Len(TwoFieldLines)
       /\ \A k \in 1..Len(rules) : rules[k] = RuleOfLine(k)
       /\ warnings = Len(rules_file) - Len(TwoFieldLines)

\* C13 witness: a file with invalid lines before and between two valid ones
\* was loaded as two rules and two warnings.
C13_Witness ==
    /\ pc = "repos"
    /\ Len(rules) = 2
    /\ warnings = 2
    /\ Len(Split(rules_file[1])) # 2

\* The labels that are empty once trimmed.
BlankLabels == { "", Join(<<" ">>), Join(<<" ", " ">>) }

\* C14: rule invariant.  Every loaded rule has a label that is not empty
\* after trimming.
C14_LabelsNonEmpty ==
    \A k \in 1..Len(rules) : rules[k].label \notin BlankLabels

\* C16: fatal startup errors precede polling.  When GET /user raised or
\* answered an error status, the process has exited with code 1, nothing is
\* registered and no repository call was made.
C16_AuthFailureIsFatal ==
    auth \in {"error", "exception"}
    => /\ pc = "exit1"
       /\ repo_names = << >>
       /\ queue = {}
       /\ started = {}
       /\ calls.list = 0
       /\ \A r \in Repos : \A i \in 1..Len(tracker[r]) : applied[r][i] = None

\* C16 witness: the token was rejected and the process has exited.
C16_Witness ==
    /\ auth = "error"
    /\ pc = "exit1"

====
